---- MODULE Spec2Model ----
(***************************************************************************)
(* Model of the game state of infinite klondike (src/src/main.rs): the     *)
(* tableau of Stacks, the grabbed stack, the foundations map, the click    *)
(* handler State::on_click and the board growth State::generate_new.       *)
(*                                                                         *)
(* Rows (column indices) and foundation indices are 0-based as in the      *)
(* source; the cards of a Stack's `visible` Vec are a TLA+ sequence, whose *)
(* position k+1 is the Vec's index k.                                      *)
(*                                                                         *)
(* The pointer and the camera are outside of the model: a click arrives as *)
(* the three values on_click computes from them (get_row_over_mouse, the   *)
(* vertical slot y, is_mouse_on_foundation), and a growth request as the   *)
(* width `visible` that generate_new computes.  A click that would index   *)
(* the tableau past its length panics in the source and has no successor   *)
(* state here.                                                             *)
(***************************************************************************)
EXTENDS Integers, Sequences, FiniteSets, TLC

VARIABLES
    tableau,            \* State.tableau: [0..n-1 -> Stack]
    grabbed_stack,      \* State.grabbed_stack: sequence of Card
    grabbed_stack_row,  \* State.grabbed_stack_row
    foundations,        \* State.foundations: function from the keys present to Card
    created,            \* history: bag of every Card produced by the random source
    placed,             \* history: per foundation index, the Cards inserted, in order
    ev,                 \* history: the handler that ran last, with the inputs it got
    snap                \* history: tableau and foundations before the pick-up click that ran last

vars == <<tableau, grabbed_stack, grabbed_stack_row, foundations, created, placed, ev, snap>>

---------------------------------------------------------------------------
(* Bounds of the model *)

\* columns State::new creates (50 in the source)
InitCols == 2
\* cards the random source produces before it stops
MaxCards == 3
\* columns generate_new may be asked to show
MaxCols == InitCols + 1
\* highest row the pointer can be over
MaxRow == 4
\* highest vertical slot the pointer can be over
MaxSlot == 2

---------------------------------------------------------------------------
(* Cards *)

\* Option::None of a usize
None == 0 - 1

Suit == {"Club", "Diamond", "Heart", "Spade"}

is_red(s) == s \in {"Diamond", "Heart"}

\* the ranks: Pip(rng.gen_range(0..13))
NumRanks == 13

Pip == 0..(NumRanks - 1)

\* mutant: ranks counted from 1
is_ace_from_one(p) == p = 1

is_ace(p) == p = 0

Pip_can_drop_on(p, other) == p + 1 = other

Card == [suit : Suit, inner : Pip]

\* mutant: the colours are not compared
Card_can_drop_on_any_colour(c, other) == Pip_can_drop_on(c.inner, other.inner)

Card_can_drop_on(c, other) ==
    Pip_can_drop_on(c.inner, other.inner) /\ is_red(c.suit) # is_red(other.suit)

\* mutant: the new column hides nothing
Stack_no_hidden(card, x) == [visible |-> <<card>>, under |-> 0]

\* The cards the random source hands out in the model: of the 52 Cards it can
\* sample, the Ace and two of a black suit and of a red suit, and the two of the
\* other red suit.  They give the cases of the rules: the next rank of the same
\* suit, of the other suit of the same colour, and of the other colour.
Drawn ==
    {c \in Card : \/ c.inner <= 1 /\ c.suit \in {"Club", "Heart"}
                  \/ c.inner = 1 /\ c.suit = "Diamond"}

Stack(card, x) == [visible |-> <<card>>, under |-> x]

---------------------------------------------------------------------------
(* Helpers of on_click *)

FOUNDATION_OFFSET == 3

NumCols == Cardinality(DOMAIN tableau)

\* mutant: the difference saturates at 0
checked_sub_saturating(a, b) == IF a >= b THEN a - b ELSE 0

\* usize::checked_sub: None when the difference is negative
checked_sub(a, b) == IF a >= b THEN a - b ELSE None

\* mutant: an empty visible stack still hands out a card
take_from_or_default(visible, visible_idx) ==
    IF visible_idx >= Len(visible)
    THEN IF visible = <<>>
         THEN <<[suit |-> "Club", inner |-> 0]>>
         ELSE <<visible[Len(visible)]>>
    ELSE SubSeq(visible, visible_idx + 1, Len(visible))

\* mutant: the run starts one card too high
take_from_one_above(visible, visible_idx) ==
    IF visible_idx >= Len(visible)
    THEN IF visible = <<>> THEN <<>> ELSE <<visible[Len(visible)]>>
    ELSE SubSeq(visible, visible_idx + 2, Len(visible))

\* what the pick-up takes from `visible` at visible_idx
take_from(visible, visible_idx) ==
    IF visible_idx >= Len(visible)
    THEN IF visible = <<>> THEN <<>> ELSE <<visible[Len(visible)]>>
    ELSE SubSeq(visible, visible_idx + 1, Len(visible))

\* mutant: the picked-up cards are copied, not moved
left_by_copy(visible, visible_idx) == visible

\* what the pick-up leaves in `visible`
left_by(visible, visible_idx) ==
    IF visible_idx >= Len(visible)
    THEN IF visible = <<>> THEN <<>> ELSE SubSeq(visible, 1, Len(visible) - 1)
    ELSE SubSeq(visible, 1, visible_idx)

\* Vec::append
append(dst, src) == dst \o src

\* mutant: the suits are not compared
foundation_accepts_any_suit(fs, foundation_index, grabbed_card) ==
    IF foundation_index \in DOMAIN fs
    THEN fs[foundation_index].inner + 1 = grabbed_card.inner
    ELSE grabbed_card.inner = 0

\* the foundation at foundation_index takes grabbed_card
foundation_accepts(fs, foundation_index, grabbed_card) ==
    IF foundation_index \in DOMAIN fs
    THEN /\ fs[foundation_index].suit = grabbed_card.suit
         /\ fs[foundation_index].inner + 1 = grabbed_card.inner
    ELSE is_ace(grabbed_card.inner)

\* HashMap::insert
insert(fs, k, card) ==
    [i \in DOMAIN fs \cup {k} |-> IF i = k THEN card ELSE fs[i]]

\* the tableau column `stack` takes the grabbed cards
tableau_accepts(grabbed, stack) ==
    \/ /\ grabbed # <<>>
       /\ stack.visible # <<>>
       /\ Card_can_drop_on(grabbed[1], stack.visible[Len(stack.visible)])
    \/ stack.under = 0 /\ stack.visible = <<>>

\* mutant: the last hidden card is never shown
needs_reveal_above_one(stack) == stack.under > 1 /\ stack.visible = <<>>

\* mutant: the visible stack is not looked at
needs_reveal_hidden_only(stack) == stack.under > 0

\* the origin column shows a new card after a successful drop
needs_reveal(stack) == stack.under > 0 /\ stack.visible = <<>>

\* mutant: the hidden count is not decremented
revealed_keeps_count(stack, card) == [visible |-> append(stack.visible, <<card>>), under |-> stack.under]

revealed(stack, card) == [visible |-> append(stack.visible, <<card>>), under |-> stack.under - 1]

---------------------------------------------------------------------------
(* History of the cards: multisets of Cards as functions Card -> Nat *)

RECURSIVE SumOver(_, _)
SumOver(f, S) ==
    IF S = {} THEN 0
    ELSE LET x == CHOOSE y \in S : TRUE IN f[x] + SumOver(f, S \ {x})

CountIn(s, c) == Cardinality({i \in DOMAIN s : s[i] = c})

Count(bag, c) == IF c \in DOMAIN bag THEN bag[c] ELSE 0

NumCreated == SumOver(created, DOMAIN created)

CanCreate(n) == NumCreated + n <= MaxCards

AddCreated(c) == [k \in DOMAIN created \cup {c} |-> Count(created, k) + (IF k = c THEN 1 ELSE 0)]

AddPlaced(k, card) ==
    [i \in DOMAIN placed \cup {k} |->
        IF i = k THEN (IF k \in DOMAIN placed THEN Append(placed[k], card) ELSE <<card>>)
        ELSE placed[i]]

Event(op, row_over, y, on_foundation, visible) ==
    [op |-> op, row_over |-> row_over, y |-> y, on_foundation |-> on_foundation,
     visible |-> visible]

---------------------------------------------------------------------------
(* State::new *)

Init ==
    /\ \E cards \in [0..(InitCols - 1) -> Drawn] :
          /\ tableau = [x \in 0..(InitCols - 1) |-> Stack(cards[x], x)]
          /\ created = [c \in {cards[x] : x \in 0..(InitCols - 1)} |->
                          Cardinality({x \in 0..(InitCols - 1) : cards[x] = c})]
    /\ grabbed_stack = <<>>
    /\ grabbed_stack_row = 0
    /\ foundations = <<>>
    /\ placed = <<>>
    /\ ev = Event("new", None, None, FALSE, None)
    /\ snap = <<>>

---------------------------------------------------------------------------
(* State::on_click, nothing grabbed: pick up from the column under the pointer *)

PickUp(row_over, y) ==
    /\ grabbed_stack = <<>>
    /\ snap' = <<[tableau |-> tableau, foundations |-> foundations]>>
    /\ UNCHANGED <<foundations, created, placed>>
    /\ IF row_over = None
       THEN UNCHANGED <<tableau, grabbed_stack, grabbed_stack_row>>
       ELSE /\ row_over < NumCols
            /\ LET visible_idx == checked_sub(y, tableau[row_over].under) IN
               IF visible_idx = None
               THEN UNCHANGED <<tableau, grabbed_stack, grabbed_stack_row>>
               ELSE /\ grabbed_stack_row' = row_over
                    /\ grabbed_stack' =
                          append(grabbed_stack, take_from(tableau[row_over].visible, visible_idx))
                    /\ tableau' = [tableau EXCEPT ![row_over].visible = left_by(@, visible_idx)]

---------------------------------------------------------------------------
(* State::on_click, cards grabbed: drop them *)

\* mutant: the cancel forgets the column the cards came from
Cancel_forgets_origin ==
    /\ tableau' = [tableau EXCEPT ![grabbed_stack_row].visible = append(@, grabbed_stack)]
    /\ grabbed_stack' = <<>>
    /\ grabbed_stack_row' = 0
    /\ UNCHANGED <<foundations, created, placed>>

\* mutant: the grabbed cards go to the first column
Cancel_first_column ==
    /\ tableau' = [tableau EXCEPT ![0].visible = @ \o grabbed_stack]
    /\ grabbed_stack' = <<>>
    /\ UNCHANGED <<grabbed_stack_row, foundations, created, placed>>

\* the grabbed cards go back to the column they came from
Cancel ==
    /\ tableau' = [tableau EXCEPT ![grabbed_stack_row].visible = append(@, grabbed_stack)]
    /\ grabbed_stack' = <<>>
    /\ UNCHANGED <<grabbed_stack_row, foundations, created, placed>>

\* the origin column of tableau t shows a new card when it is left empty over hidden cards
RevealOrigin(t) ==
    IF needs_reveal(t[grabbed_stack_row])
    THEN /\ CanCreate(1)
         /\ \E card \in Drawn :
               /\ tableau' = [t EXCEPT ![grabbed_stack_row] = revealed(@, card)]
               /\ created' = AddCreated(card)
    ELSE /\ tableau' = t
         /\ UNCHANGED created

FoundationDrop(foundation_index) ==
    LET grabbed_card == grabbed_stack[1] IN
    IF foundation_accepts(foundations, foundation_index, grabbed_card)
    THEN /\ foundations' = insert(foundations, foundation_index, grabbed_card)
         /\ placed' = AddPlaced(foundation_index, grabbed_card)
         /\ grabbed_stack' = SubSeq(grabbed_stack, 1, Len(grabbed_stack) - 1)
         /\ RevealOrigin(tableau)
         /\ UNCHANGED grabbed_stack_row
    ELSE UNCHANGED <<tableau, grabbed_stack, grabbed_stack_row, foundations, created, placed>>

TableauDrop(row_over) ==
    /\ row_over < NumCols
    /\ IF tableau_accepts(grabbed_stack, tableau[row_over])
       THEN /\ RevealOrigin([tableau EXCEPT ![row_over].visible = append(@, grabbed_stack)])
            /\ grabbed_stack' = <<>>
            /\ UNCHANGED <<grabbed_stack_row, foundations, placed>>
       ELSE Cancel

\* mutant: the foundation row takes a held run of any length
Drop_any_length(row_over, on_foundation) ==
    /\ grabbed_stack # <<>>
    /\ snap' = <<>>
    /\ IF row_over = None
       THEN Cancel
       ELSE IF on_foundation
            THEN LET foundation_index == checked_sub(row_over, FOUNDATION_OFFSET) IN
                 IF foundation_index # None
                 THEN FoundationDrop(foundation_index)
                 ELSE Cancel
            ELSE TableauDrop(row_over)

\* mutant: left of the first foundation the drop falls through to the tableau drop
Drop_fall_through(row_over, on_foundation) ==
    /\ grabbed_stack # <<>>
    /\ snap' = <<>>
    /\ IF row_over = None
       THEN Cancel
       ELSE IF on_foundation /\ Len(grabbed_stack) = 1
                 /\ checked_sub(row_over, FOUNDATION_OFFSET) # None
            THEN FoundationDrop(checked_sub(row_over, FOUNDATION_OFFSET))
            ELSE TableauDrop(row_over)

Drop(row_over, on_foundation) ==
    /\ grabbed_stack # <<>>
    /\ snap' = <<>>
    /\ IF row_over = None
       THEN Cancel
       ELSE IF on_foundation /\ Len(grabbed_stack) = 1
            THEN LET foundation_index == checked_sub(row_over, FOUNDATION_OFFSET) IN
                 IF foundation_index # None
                 THEN FoundationDrop(foundation_index)
                 ELSE Cancel
            ELSE TableauDrop(row_over)

\* mutant: a click picks up whether or not cards are grabbed
on_click_always_picks_up(row_over, y, on_foundation) ==
    /\ ev' = Event("pickup", row_over, y, on_foundation, None)
    /\ snap' = <<[tableau |-> tableau, foundations |-> foundations]>>
    /\ UNCHANGED <<foundations, created, placed>>
    /\ row_over # None
    /\ row_over < NumCols
    /\ checked_sub(y, tableau[row_over].under) # None
    /\ grabbed_stack_row' = row_over
    /\ grabbed_stack' =
          append(grabbed_stack,
                 take_from(tableau[row_over].visible, checked_sub(y, tableau[row_over].under)))
    /\ tableau' = [tableau EXCEPT ![row_over].visible =
                      left_by(@, checked_sub(y, tableau[row_over].under))]

on_click(row_over, y, on_foundation) ==
    /\ ev' = Event(IF grabbed_stack = <<>> THEN "pickup" ELSE "drop",
                   row_over, y, on_foundation, None)
    /\ IF grabbed_stack = <<>>
       THEN PickUp(row_over, y)
       ELSE Drop(row_over, on_foundation)

---------------------------------------------------------------------------
(* State::generate_new *)

\* mutant: a width equal to the column count still appends
generate_new_at_equal(visible) ==
    /\ ev' = Event("grow", None, None, FALSE, visible)
    /\ snap' = <<>>
    /\ UNCHANGED <<grabbed_stack, grabbed_stack_row, foundations, placed>>
    /\ IF visible >= NumCols
       THEN /\ CanCreate(visible + 1 - NumCols)
            /\ \E cards \in [NumCols..visible -> Drawn] :
                  /\ tableau' = [height \in 0..visible |->
                                    IF height < NumCols THEN tableau[height]
                                    ELSE Stack(cards[height], height)]
                  /\ created' = [c \in DOMAIN created \cup {cards[h] : h \in NumCols..visible} |->
                        Count(created, c) + Cardinality({h \in NumCols..visible : cards[h] = c})]
       ELSE UNCHANGED <<tableau, created>>

generate_new(visible) ==
    /\ ev' = Event("grow", None, None, FALSE, visible)
    /\ snap' = <<>>
    /\ UNCHANGED <<grabbed_stack, grabbed_stack_row, foundations, placed>>
    /\ IF visible > NumCols
       THEN /\ CanCreate(visible - NumCols)
            /\ \E cards \in [NumCols..(visible - 1) -> Drawn] :
                  /\ tableau' = [height \in 0..(visible - 1) |->
                                    IF height < NumCols THEN tableau[height]
                                    ELSE Stack(cards[height], height)]
                  /\ created' = [c \in DOMAIN created \cup {cards[h] : h \in NumCols..(visible - 1)} |->
                        Count(created, c) + Cardinality({h \in NumCols..(visible - 1) : cards[h] = c})]
       ELSE UNCHANGED <<tableau, created>>

---------------------------------------------------------------------------
(* The main loop: a left click or a camera drag per frame *)

Rows == (0..MaxRow) \cup {None}

\* the pick-up branch reads y alone, and only with a row under the pointer, and
\* the drop branch on_foundation alone: an input the click does not read is held
\* fixed
Click == \E row_over \in Rows, y \in 0..MaxSlot, on_foundation \in BOOLEAN :
            /\ IF grabbed_stack = <<>>
               THEN ~on_foundation /\ (row_over = None => y = 0)
               ELSE y = 0
            /\ on_click(row_over, y, on_foundation)

\* the width State::new dealt, which asks for nothing new, and the widest one
Grow == \E visible \in {InitCols, MaxCols} : generate_new(visible)

Next == Click \/ Grow

Spec == Init /\ [][Next]_vars

---------------------------------------------------------------------------
(* What the claims speak of, in their own terms *)

Held == grabbed_stack

Idle == grabbed_stack = <<>>

Origin == grabbed_stack_row

Red(suit) == suit = "Diamond" \/ suit = "Heart"

Top(visible) == visible[Len(visible)]

\* the column takes the run `held` by the rule of the tableau
LegalOnColumn(column, held) ==
    \/ /\ column.visible # <<>>
       /\ held[1].inner = Top(column.visible).inner - 1
       /\ Red(held[1].suit) # Red(Top(column.visible).suit)
    \/ column.under = 0 /\ column.visible = <<>>

\* the foundation pile i takes the card by the rule of the foundations
LegalOnFoundation(fs, i, card) ==
    \/ i \notin DOMAIN fs /\ card.inner = 0
    \/ /\ i \in DOMAIN fs
       /\ fs[i].suit = card.suit
       /\ card.inner = fs[i].inner + 1

\* the tableau with the held cards back on the origin column
BackOnOrigin == [tableau EXCEPT ![Origin].visible = @ \o Held]

\* the step is a click that drops the held cards
IsDrop == Held # <<>> /\ ev'.op = "drop"

\* the drop is over the foundation row with a single card, at a row with a foundation index
IsFoundationDrop ==
    IsDrop /\ ev'.row_over # None /\ ev'.on_foundation /\ Len(Held) = 1
           /\ ev'.row_over >= FOUNDATION_OFFSET

\* the drop is over the foundation row with a single card, left of the first foundation
IsNegativeIndexDrop ==
    IsDrop /\ ev'.row_over # None /\ ev'.on_foundation /\ Len(Held) = 1
           /\ ev'.row_over < FOUNDATION_OFFSET

\* the drop is an ordinary drop on a tableau column
IsTableauDrop ==
    IsDrop /\ ev'.row_over # None /\ ~(ev'.on_foundation /\ Len(Held) = 1)

LiveCount(c) ==
    SumOver([i \in DOMAIN tableau |-> CountIn(tableau[i].visible, c)], DOMAIN tableau)
        + CountIn(grabbed_stack, c)

PlacedCount(c) ==
    SumOver([i \in DOMAIN placed |-> CountIn(placed[i], c)], DOMAIN placed)

Range(seq) == {seq[k] : k \in DOMAIN seq}

\* every card that is in a column, held, or was placed onto a foundation
CardsAnywhere ==
    UNION ({Range(tableau[i].visible) : i \in DOMAIN tableau}
           \cup {Range(placed[i]) : i \in DOMAIN placed}
           \cup {Range(grabbed_stack)})

---------------------------------------------------------------------------
\* C1: no duplication or loss. Every card the random source produced is, with its
\* multiplicity, in a column's visible stack, in the held stack, or was placed
\* onto a foundation; no card is in two places and none has vanished.
C1_NoDuplicationOrLoss ==
    \A c \in DOMAIN created \cup CardsAnywhere :
        Count(created, c) = LiveCount(c) + PlacedCount(c)

\* a card was placed, a card was revealed and a run is held
C1_Witness ==
    /\ placed # <<>>
    /\ \E i \in DOMAIN tableau : tableau[i].under < i
    /\ Held # <<>>

\* C2: every drop ends with held empty, whatever the target.
C2_DropEndsIdle == ev.op = "drop" => Held = <<>>

\* C3: cancel is a no-op on failure. A pick-up followed by a drop onto an illegal
\* destination (a tableau column that does not take the run, or a foundation pile
\* that rejects the single held card) leaves every column as it was before the
\* pick-up, the picked-up cards back on the origin column in their order.
C3_IllegalDropRestores ==
    [][ (/\ ev.op = "pickup"
         /\ snap # <<>>
         /\ \/ IsTableauDrop /\ ev'.row_over < NumCols
                              /\ ~LegalOnColumn(tableau[ev'.row_over], Held)
            \/ IsFoundationDrop
                 /\ ~LegalOnFoundation(foundations, ev'.row_over - FOUNDATION_OFFSET, Held[1]))
        => tableau' = snap[1].tableau ]_vars

\* C4: foundation monotonicity. The cards ever inserted at a foundation index start
\* with an Ace, each later card has the suit of the card it overwrites and the next
\* rank, the map holds the last card inserted, and an entry is never removed.
C4_FoundationMonotonic ==
    /\ [](/\ DOMAIN foundations = DOMAIN placed
          /\ \A i \in DOMAIN placed :
                /\ placed[i] # <<>>
                /\ placed[i][1].inner = 0
                /\ foundations[i] = Top(placed[i])
                /\ \A k \in 1..(Len(placed[i]) - 1) :
                      /\ placed[i][k + 1].suit = placed[i][k].suit
                      /\ placed[i][k + 1].inner = placed[i][k].inner + 1)
    /\ [][DOMAIN foundations \subseteq DOMAIN foundations']_vars

\* a foundation took an Ace and then the two of its suit
C4_Witness == \E i \in DOMAIN placed : Len(placed[i]) >= 2

\* C5: a single card dropped over the foundation row at a row below 3 is an
\* ordinary tableau drop on that row: it lands on the target column when the
\* column takes it, and is cancelled otherwise.
C5_NegativeIndexIsTableauDrop ==
    [][ (IsNegativeIndexDrop /\ ev'.row_over < NumCols)
        => IF LegalOnColumn(tableau[ev'.row_over], Held)
           THEN tableau'[ev'.row_over].visible = tableau[ev'.row_over].visible \o Held
           ELSE tableau' = BackOnOrigin ]_vars

\* C5 as amended: a single card dropped over the foundation row at a row below 3
\* is cancelled whatever the target column holds: the card goes back on the origin
\* column, held ends empty, and no other column, no hidden count and no
\* foundation changes.
C5_NegativeIndexCancels ==
    [][ IsNegativeIndexDrop
        => /\ tableau' = BackOnOrigin
           /\ Held' = <<>>
           /\ foundations' = foundations ]_vars

\* a single card was dropped over the foundation row left of the first foundation,
\* on a column that is not the origin and would have taken it
C5_Witness ==
    /\ ev.op = "drop" /\ ev.on_foundation
    /\ ev.row_over # None /\ ev.row_over < FOUNDATION_OFFSET /\ ev.row_over < NumCols
    /\ ev.row_over # Origin
    /\ Held = <<>>
    /\ tableau[Origin].visible # <<>>
    /\ LegalOnColumn(tableau[ev.row_over], <<Top(tableau[Origin].visible)>>)

\* C6: tableau drop legality. The drop lands on the target column, behind its old
\* cards and in order, exactly when the column takes the run by the rule of the
\* tableau; otherwise the held cards go back on the origin column.
C6_TableauDropLegality ==
    [][ (IsTableauDrop /\ ev'.row_over < NumCols)
        => /\ Held' = <<>>
           /\ IF LegalOnColumn(tableau[ev'.row_over], Held)
              THEN tableau'[ev'.row_over].visible = tableau[ev'.row_over].visible \o Held
              ELSE tableau' = BackOnOrigin ]_vars

\* a run was dropped on another column's card of the next rank and other colour
C6_Witness ==
    /\ ev.op = "drop" /\ ~ev.on_foundation /\ ev.row_over # None /\ ev.row_over < NumCols
    /\ ev.row_over # Origin
    /\ Held = <<>>
    /\ Len(tableau[ev.row_over].visible) >= 2

\* C7: column invariant. A column's hidden count never increases; it changes only
\* by a decrease of exactly 1, in a step before which the column's visible stack
\* was empty and after which it holds exactly one card, newly produced.
C7_HiddenCountOnlyReveals ==
    [][ \A i \in DOMAIN tableau :
          /\ i \in DOMAIN tableau'
          /\ tableau'[i].under <= tableau[i].under
          /\ tableau'[i].under # tableau[i].under
               => /\ tableau'[i].under = tableau[i].under - 1
                  /\ tableau[i].visible = <<>>
                  /\ Len(tableau'[i].visible) = 1
                  /\ created'[tableau'[i].visible[1]] = Count(created, tableau'[i].visible[1]) + 1 ]_vars

\* a drop left the origin column empty over hidden cards and the column revealed one
C7_Witness ==
    /\ ev.op = "drop"
    /\ Held = <<>>
    /\ tableau[Origin].under < Origin
    /\ Len(tableau[Origin].visible) = 1

\* C8: a foundation drop is accepted exactly when the pile is empty and the card
\* is an Ace, or the pile's top has the card's suit and the rank below; a rejected
\* foundation drop leaves the foundation map unchanged at every index.
C8_FoundationAcceptance ==
    [][ IsFoundationDrop
        => LET i == ev'.row_over - FOUNDATION_OFFSET
               card == Held[1]
           IN  IF LegalOnFoundation(foundations, i, card)
               THEN /\ foundations' = [k \in DOMAIN foundations \cup {i} |->
                                          IF k = i THEN card ELSE foundations[k]]
                    /\ placed' # placed
                    /\ Held' = <<>>
               ELSE /\ foundations' = foundations
                    /\ placed' = placed ]_vars

\* the last click dropped the two of a suit on the foundation holding its Ace
C8_Witness ==
    /\ ev.op = "drop" /\ ev.on_foundation /\ ev.row_over # None
    /\ ev.row_over >= FOUNDATION_OFFSET
    /\ Held = <<>>
    /\ (ev.row_over - FOUNDATION_OFFSET) \in DOMAIN foundations
    /\ foundations[ev.row_over - FOUNDATION_OFFSET].inner = 1

\* C9: a pick-up followed at once by a drop with no column under the pointer is a
\* round trip: every column's hidden count and visible stack and the foundation
\* map are as before the pick-up, and held is empty again.
C9_PickUpCancelRoundTrip ==
    [][ (ev.op = "pickup" /\ snap # <<>> /\ IsDrop /\ ev'.row_over = None)
        => /\ tableau' = snap[1].tableau
           /\ foundations' = snap[1].foundations
           /\ Held' = <<>> ]_vars

\* a run picked up from the middle of a column was dropped beside the board
C9_Witness ==
    /\ ev.op = "drop" /\ ev.row_over = None
    /\ Held = <<>>
    /\ Len(tableau[Origin].visible) >= 2

\* C10: board growth is append-only. A growth request leaves every existing
\* column, held and the foundations as they were; every column appended at index
\* i, by State::new or by generate_new, has hidden count i and one visible card;
\* the column count never decreases in any step.
C10_GrowthAppendOnly ==
    /\ [](ev.op = "new" => \A i \in DOMAIN tableau :
                              tableau[i].under = i /\ Len(tableau[i].visible) = 1)
    /\ [][ /\ DOMAIN tableau \subseteq DOMAIN tableau'
           /\ DOMAIN tableau' = 0..(Cardinality(DOMAIN tableau') - 1)
           /\ ev'.op = "grow"
                => /\ \A i \in DOMAIN tableau : tableau'[i] = tableau[i]
                   /\ Held' = Held
                   /\ foundations' = foundations
                   /\ \A i \in DOMAIN tableau' \ DOMAIN tableau :
                         /\ tableau'[i].under = i
                         /\ Len(tableau'[i].visible) = 1 ]_vars

\* the board grew while cards were held
C10_Witness ==
    /\ ev.op = "grow"
    /\ NumCols > InitCols
    /\ Held # <<>>

\* C11: idempotent growth. After a growth request for width n the board has at
\* least n columns; a request for a width not above the column count changes
\* nothing; and the same request made twice in a row leaves, the second time,
\* the column count and every column as the first left them.
C11_GrowthIdempotent ==
    /\ [](ev.op = "grow" => NumCols >= ev.visible)
    /\ [][ ev'.op = "grow"
           => /\ ev'.visible <= NumCols
                   => /\ tableau' = tableau
                      /\ Held' = Held
                      /\ Origin' = Origin
                      /\ foundations' = foundations
              /\ (ev.op = "grow" /\ ev.visible = ev'.visible) => tableau' = tableau ]_vars

\* the board was grown to the width asked for, with nothing held
C11_Witness ==
    /\ ev.op = "grow"
    /\ ev.visible = NumCols
    /\ NumCols > InitCols
    /\ Idle

\* C12: a pick-up click at a slot inside the hidden region of the clicked column
\* is a no-op: held stays empty, and the recorded origin, every column and the
\* foundations are unchanged.
C12_HiddenSlotNoOp ==
    [][ (/\ ev'.op = "pickup"
         /\ ev'.row_over # None
         /\ ev'.row_over < NumCols
         /\ ev'.y < tableau[ev'.row_over].under)
        => /\ Held' = <<>>
           /\ Origin' = Origin
           /\ tableau' = tableau
           /\ foundations' = foundations ]_vars

\* the last click was on a hidden card of a column that shows cards
C12_Witness ==
    /\ ev.op = "pickup"
    /\ ev.row_over # None /\ ev.row_over < NumCols
    /\ ev.y < tableau[ev.row_over].under
    /\ tableau[ev.row_over].visible # <<>>
    /\ Origin # ev.row_over
    /\ Idle

Total(bag) == SumOver(bag, DOMAIN bag)

\* the drop is one the rules accept: on a foundation or on a tableau column
IsSuccessfulDrop ==
    \/ /\ IsFoundationDrop
       /\ LegalOnFoundation(foundations, ev'.row_over - FOUNDATION_OFFSET, Held[1])
    \/ /\ IsTableauDrop
       /\ ev'.row_over < NumCols
       /\ LegalOnColumn(tableau[ev'.row_over], Held)

\* the origin column's visible stack once the held cards have landed
OriginAfterLanding ==
    IF IsTableauDrop /\ ev'.row_over = Origin
    THEN tableau[Origin].visible \o Held
    ELSE tableau[Origin].visible

\* C13: after every successful drop, on a tableau column or on a foundation, an
\* origin column left with an empty visible stack over hidden cards gets, in that
\* step, exactly one new card and a hidden count lower by 1; an origin column
\* with visible cards or with no hidden card gets no card and keeps its count.
C13_RevealAfterSuccessfulDrop ==
    [][ IsSuccessfulDrop
        => IF OriginAfterLanding = <<>> /\ tableau[Origin].under > 0
           THEN /\ Len(tableau'[Origin].visible) = 1
                /\ tableau'[Origin].under = tableau[Origin].under - 1
                /\ Total(created') = Total(created) + 1
           ELSE /\ tableau'[Origin].visible = OriginAfterLanding
                /\ tableau'[Origin].under = tableau[Origin].under
                /\ created' = created ]_vars

\* a card went from a column to a foundation and the column revealed its last
\* hidden card
C13_Witness ==
    /\ ev.op = "drop" /\ ev.on_foundation
    /\ ev.row_over # None /\ ev.row_over >= FOUNDATION_OFFSET
    /\ Idle
    /\ Origin > 0
    /\ tableau[Origin].under = Origin - 1
    /\ Len(tableau[Origin].visible) = 1
    /\ (ev.row_over - FOUNDATION_OFFSET) \in DOMAIN foundations

IsPrefix(a, b) == Len(a) <= Len(b) /\ SubSeq(b, 1, Len(a)) = a

\* C14: a pick-up at visible index k = slot - hidden count >= 0 of a column with
\* visible stack v takes the suffix v[k..] in order and leaves the prefix v[..k]
\* when k < len(v), and takes only the top card of v and leaves the rest when
\* k >= len(v) and v is not empty; the origin recorded is the clicked column and
\* no other column changes.
C14_PickUpTakesSuffix ==
    [][ (/\ ev'.op = "pickup"
         /\ ev'.row_over # None
         /\ ev'.row_over < NumCols
         /\ ev'.y >= tableau[ev'.row_over].under
         /\ tableau[ev'.row_over].visible # <<>>)
        => LET r == ev'.row_over
               v == tableau[r].visible
               k == ev'.y - tableau[r].under
           IN  /\ IF k < Len(v)
                  THEN /\ Held' = SubSeq(v, k + 1, Len(v))
                       /\ tableau'[r].visible = SubSeq(v, 1, k)
                  ELSE /\ Held' = <<v[Len(v)]>>
                       /\ tableau'[r].visible = SubSeq(v, 1, Len(v) - 1)
               /\ tableau'[r].under = tableau[r].under
               /\ Origin' = r
               /\ DOMAIN tableau' = DOMAIN tableau
               /\ \A i \in DOMAIN tableau : i # r => tableau'[i] = tableau[i] ]_vars

\* a run of two cards was picked up together
C14_Witness ==
    /\ ev.op = "pickup"
    /\ ev.row_over = Origin
    /\ Len(Held) >= 2

\* C15: the foundations change only in a drop step with exactly one card held
\* and the pointer over the foundation row; a held run of two or more cards
\* dropped over the foundation row is an ordinary tableau drop on the target
\* column and does not alter the foundation map.
C15_FoundationsChangeOnlyBySingleCard ==
    [][ /\ foundations' # foundations
           => /\ ev'.op = "drop"
              /\ ev'.on_foundation
              /\ Len(Held) = 1
        /\ (IsDrop /\ ev'.on_foundation /\ Len(Held) >= 2
                   /\ ev'.row_over # None /\ ev'.row_over < NumCols)
           => /\ foundations' = foundations
              /\ Held' = <<>>
              /\ IF LegalOnColumn(tableau[ev'.row_over], Held)
                 THEN tableau'[ev'.row_over].visible = tableau[ev'.row_over].visible \o Held
                 ELSE tableau' = BackOnOrigin ]_vars

\* a run of two cards was dropped over the foundation row onto another column
C15_Witness ==
    /\ ev.op = "drop" /\ ev.on_foundation
    /\ ev.row_over # None /\ ev.row_over < NumCols /\ ev.row_over < FOUNDATION_OFFSET
    /\ ev.row_over # Origin
    /\ Idle
    /\ tableau[Origin].visible = <<>>
    /\ Len(tableau[ev.row_over].visible) >= 2

\* C16: pick-up happens only from Idle. In a step that starts with cards held no
\* card leaves a column's visible stack and held gains nothing: held stays as it
\* is or is emptied, and every column keeps its visible cards as a prefix; held
\* gains cards only in a step that starts with held empty.
C16_PickUpOnlyFromIdle ==
    [][ /\ Held # <<>>
           => /\ Len(Held') <= Len(Held)
              /\ IsPrefix(Held', Held)
              /\ \A i \in DOMAIN tableau :
                    /\ i \in DOMAIN tableau'
                    /\ IsPrefix(tableau[i].visible, tableau'[i].visible)
        /\ Len(Held') > Len(Held) => Held = <<>> /\ ev'.op = "pickup" ]_vars

\* a click made while holding left the card in hand and every column as it was
C16_Witness ==
    /\ ev.op = "drop"
    /\ Held # <<>>

\* C17: a pick-up click on a column whose visible stack is empty (a fully empty
\* column with hidden count 0, at any slot) picks up nothing: held stays empty,
\* and every column and every foundation is unchanged.
C17_EmptyColumnPickUpTakesNothing ==
    [][ (/\ ev'.op = "pickup"
         /\ ev'.row_over # None
         /\ ev'.row_over < NumCols
         /\ tableau[ev'.row_over].visible = <<>>)
        => /\ Held = <<>>
           /\ Held' = <<>>
           /\ tableau' = tableau
           /\ foundations' = foundations ]_vars

\* a fully empty column was clicked with nothing held, and nothing is held
C17_Witness ==
    /\ ev.op = "pickup"
    /\ ev.row_over # None
    /\ ev.row_over < NumCols
    /\ tableau[ev.row_over].visible = <<>>
    /\ tableau[ev.row_over].under = 0
    /\ Origin = ev.row_over
    /\ Idle

\* C18: in every reachable state a column with hidden count > 0 and an empty
\* visible stack is the recorded origin column of a non-empty held stack; when
\* nothing is held every column with hidden count > 0 has a visible card.
C18_HiddenColumnsShowACard ==
    \A i \in DOMAIN tableau :
        (tableau[i].under > 0 /\ tableau[i].visible = <<>>)
           => (Held # <<>> /\ i = Origin)

\* the only visible card of a column with hidden cards is held
C18_Witness ==
    /\ Held # <<>>
    /\ tableau[Origin].under > 0
    /\ tableau[Origin].visible = <<>>

\* C19: a pick-up step changes only the clicked column's visible stack, held and
\* the recorded origin; a drop step changes at most the origin column, the
\* destination column, held and the foundation entry under the pointer.  Every
\* other column and every other foundation index is unchanged, and a drop never
\* changes the recorded origin.
C19_Frame ==
    [][ /\ ev'.op = "pickup"
           => /\ foundations' = foundations
              /\ DOMAIN tableau' = DOMAIN tableau
              /\ \A i \in DOMAIN tableau :
                    /\ tableau'[i].under = tableau[i].under
                    /\ i # ev'.row_over => tableau'[i] = tableau[i]
              /\ ev'.row_over = None => (Held' = Held /\ Origin' = Origin)
        /\ ev'.op = "drop"
           => /\ Origin' = Origin
              /\ DOMAIN tableau' = DOMAIN tableau
              /\ \A i \in DOMAIN tableau :
                    (i # Origin /\ i # ev'.row_over) => tableau'[i] = tableau[i]
              /\ DOMAIN foundations \subseteq DOMAIN foundations'
              /\ \A k \in DOMAIN foundations' :
                    (ev'.row_over = None \/ k # ev'.row_over - FOUNDATION_OFFSET)
                       => (k \in DOMAIN foundations /\ foundations'[k] = foundations[k]) ]_vars

\* with three columns on the table a held card was dropped from its origin onto
\* another column
C19_Witness ==
    /\ ev.op = "drop" /\ ~ev.on_foundation
    /\ NumCols >= 3
    /\ ev.row_over # None /\ ev.row_over < NumCols
    /\ ev.row_over # Origin
    /\ Idle
    /\ Len(tableau[ev.row_over].visible) >= 2

====
